---- MODULE Spec2Model ----
(***************************************************************************)
(* Verification model of ovro_data_recorder:                               *)
(*   - the retention manager StorageLogger (quota_manager.py and           *)
(*     monitoring.py carry one implementation each),                       *)
(*   - the recording windows of filewriter.py (FileWriterBase and its      *)
(*     sub-classes HDF5Writer, MeasurementSetWriter, TarredFileWriterBase),*)
(*   - the daemon loops main() of the loggers and the health aggregation   *)
(*     of monitoring.StatusLogger.                                         *)
(* Each component has a specification of its own over the same variables.  *)
(***************************************************************************)
EXTENDS Integers, Sequences, FiniteSets, TLC

(***************************************************************************)
(* Bounds of the model.                                                    *)
(***************************************************************************)
\* Longest tracked list handed to _manage_quota.
MaxFiles == 4

\* File sizes and quotas (bytes) the tracked lists are drawn from.
SizeSet == {5, 10, 20, 30}
QuotaSet == {15, 40, 100}

\* Horizon of the wall clock, in seconds.
MaxClock == 5

\* Most samples (after reduction) in one block handed to write().
MaxBlock == 4

\* Most write() calls, direct stop() calls and cancel() calls on one window.
MaxWrites == 2
MaxStops == 2
MaxCancels == 1

\* Pipeline lags (seconds), upstream averaging factors and reduction factors
\* (0: no reduction) the windows are run with.
Lags == {0, 1}
NavgSet == {1, 2}
Reductions == {0, 2}

\* The windows a process may hold.
Windows == {1, 2}

VARIABLES
    impl,           \* which StorageLogger: "quota_manager" or "monitoring"
    _files,         \* StorageLogger._files: tracked paths, oldest first
    _file_sizes,    \* StorageLogger._file_sizes: cached sizes, same order
    quota,          \* StorageLogger.quota: <<>> is None, <<q>> a byte count
    disk,           \* paths present in the directory
    spc,            \* position of the StorageLogger thread
    total_size,     \* local of _manage_quota
    removed,        \* local of _manage_quota: number of entries removed
    removed_size,   \* local of _manage_quota (quota_manager.py)
    i,              \* local of _manage_quota (monitoring.py): cursor, 0-based
    attempts,       \* history: removals this run of _manage_quota attempted
    tracked0,       \* history: the tracked list when _manage_quota was entered
    sizes0,         \* history: the cached sizes when _manage_quota was entered
    evicted,        \* history: paths this run removed from disk
    failed,         \* history: paths whose removal this run attempted and failed
    clock,          \* datetime.utcnow(), in seconds
    lag,            \* OperationQueue.lag of the linked queue, in seconds
    wins,           \* the windows that have been constructed
    win,            \* per window: the attributes of the FileWriterBase object
    ret,            \* per window: the last call made on it and how it ended
    n_write,        \* history, per window: calls to write()
    n_stop,         \* history, per window: direct calls to stop()
    n_cancel,       \* history, per window: calls to cancel()
    tempdir,        \* MeasurementSetWriter._tempdir exists (one per process)
    template,       \* MeasurementSetWriter._template exists
    artifacts,      \* <<window, tag name>> of each measurement-set tar file
    logger,         \* the class whose main() the thread runs
    once,           \* the argument once of main()
    shutdown,       \* shutdown_event.is_set()
    mpc,            \* position of the thread in main()
    cycles,         \* history: polling cycles main() has completed
    sleeps,         \* history: sleeps main() has begun
    sleep_left,     \* ticks left of the sleep in progress
    late,           \* history: ticks slept since the shutdown event was set
    dsize,          \* per path: the size of the file on disk
    quota_arg,      \* history: the quota handed to StorageLogger.__init__
    exc,            \* the exception that ended main(), "None" when there is none
    store,          \* the monitor points of the metrics store, per name
    known,          \* history: the paths tracked when the latest scan began
    gpc,            \* position of the thread in GlobalLogger.main
    t_now,          \* local of GlobalLogger.main, in ticks
    t_perf,         \* local of GlobalLogger.main: latest poll of perf
    t_storage,      \* local of GlobalLogger.main: latest poll of storage
    t_status,       \* local of GlobalLogger.main: latest poll of status
    polls,          \* history: iterations of the loop of GlobalLogger.main
    tpc,            \* per thread on one window: its position in stop() / cancel()
    tres,           \* per thread on one window: how its call ended
    update_interval,\* StorageLogger.update_interval, in seconds
    runtime,        \* local of StorageLogger.main: the measured cycle cost
    t_sleep,        \* local of StorageLogger.main, in hundredths of a second
    lpc,            \* position of the main thread in quota_manager.main
    sig             \* the event setup_signal_handling returned is set

qvars == <<impl, _files, _file_sizes, quota, disk, spc, total_size, removed,
           removed_size, i, attempts, tracked0, sizes0, evicted, failed>>

wvars == <<clock, lag, wins, win, ret, n_write, n_stop, n_cancel, tempdir, template,
           artifacts>>

\* the daemon loops and the metrics store
ovars == <<logger, once, shutdown, mpc, cycles, sleeps, sleep_left, late, dsize,
           quota_arg, exc, store>>

\* GlobalLogger.main
gvars == <<gpc, t_now, t_perf, t_storage, t_status, polls>>

\* two threads in stop() and cancel() of one window
rvars == <<tpc, tres>>

\* the sleep computed at the end of a StorageLogger cycle
svars == <<update_interval, runtime, t_sleep>>

\* the launcher of the quota manager program
lvars == <<lpc, sig>>

xvars == <<known, gvars, rvars, svars, lvars>>

vars == <<qvars, wvars, ovars, xvars>>

(***************************************************************************)
(* Helpers                                                                 *)
(***************************************************************************)
None == <<>>

RECURSIVE Sum(_)
\* sum(self._file_sizes)
Sum(s) == IF s = <<>> THEN 0 ELSE Head(s) + Sum(Tail(s))

\* deque.pop(): the sequence without its right-most element
PopRight(s) == SubSeq(s, 1, Len(s) - 1)

\* del s[k] for a 0-based k
DelAt(s, k) == SubSeq(s, 1, k) \o SubSeq(s, k + 2, Len(s))

Range(s) == {s[k] : k \in DOMAIN s}

\* Paths are numbered in name order: path n sorts before path n+1.
Listing(n) == [k \in 1..n |-> k]

(***************************************************************************)
(* StorageLogger._manage_quota                                             *)
(***************************************************************************)
\* while total_size > self.quota and len(self._files) > 1
LoopCond == total_size > quota[1] /\ Len(_files) > 1

\* both files: entry to _manage_quota, the locals are initialised
ManageQuotaBegin ==
    /\ spc = "manage"
    /\ quota # None
    /\ total_size' = Sum(_file_sizes)
    /\ removed' = 0
    /\ removed_size' = 0
    /\ i' = 0
    /\ attempts' = 0
    /\ tracked0' = _files
    /\ sizes0' = _file_sizes
    /\ evicted' = {}
    /\ failed' = {}
    /\ spc' = "loop"
    /\ UNCHANGED <<impl, _files, _file_sizes, quota, disk>>
    /\ UNCHANGED <<wvars, ovars>>
    /\ UNCHANGED xvars

\* quota_manager.py: one iteration of the while loop
QM_ManageQuotaStep ==
    /\ spc = "loop"
    /\ impl = "quota_manager"
    /\ LoopCond
    /\ LET to_remove == _files[Len(_files)]
           size == _file_sizes[Len(_file_sizes)]
       IN /\ _files' = PopRight(_files)
          /\ _file_sizes' = PopRight(_file_sizes)
          /\ \E ok \in BOOLEAN :
                /\ ok => to_remove \in disk
                /\ IF ok
                   THEN /\ disk' = disk \ {to_remove}
                        /\ removed' = removed + 1
                        /\ removed_size' = removed_size + size
                        /\ total_size' = total_size - size
                        /\ evicted' = evicted \cup {to_remove}
                        /\ UNCHANGED failed
                   ELSE /\ failed' = failed \cup {to_remove}
                        /\ UNCHANGED <<disk, removed, removed_size, total_size,
                                       evicted>>
    /\ attempts' = attempts + 1
    /\ UNCHANGED <<impl, quota, spc, i, tracked0, sizes0>>
    /\ UNCHANGED <<wvars, ovars>>
    /\ UNCHANGED xvars

\* quota_manager.py: the loop has ended; the quota report
QM_ManageQuotaReport ==
    /\ spc = "loop"
    /\ impl = "quota_manager"
    /\ ~LoopCond
    \* len(removed) on an int raises TypeError
    /\ spc' = IF removed > 0 THEN "raised" ELSE "returned"
    /\ UNCHANGED <<impl, _files, _file_sizes, quota, disk, total_size, removed,
                   removed_size, i, attempts, tracked0, sizes0, evicted, failed>>
    /\ UNCHANGED <<wvars, ovars>>
    /\ UNCHANGED xvars

\* the while loop with a failed removal tried again at the same index
Mon_ManageQuotaStep_Retry ==
    /\ spc = "loop"
    /\ impl = "monitoring"
    /\ LoopCond
    /\ i < Len(_files)
    /\ LET to_remove == _files[i + 1]
       IN \E ok \in BOOLEAN :
            /\ ok => to_remove \in disk
            /\ IF ok
               THEN /\ disk' = disk \ {to_remove}
                    /\ removed' = removed + 1
                    /\ _files' = DelAt(_files, i)
                    /\ _file_sizes' = DelAt(_file_sizes, i)
                    /\ i' = 0
                    /\ evicted' = evicted \cup {to_remove}
                    /\ total_size' = Sum(DelAt(_file_sizes, i))
                    /\ UNCHANGED failed
               ELSE /\ failed' = failed \cup {to_remove}
                    /\ total_size' = Sum(_file_sizes)
                    /\ UNCHANGED <<i, disk, removed, _files, _file_sizes, evicted>>
    /\ attempts' = attempts + 1
    /\ UNCHANGED <<impl, quota, spc, removed_size, tracked0, sizes0>>
    /\ UNCHANGED <<wvars, ovars>>
    /\ UNCHANGED xvars

\* monitoring.py: one iteration of the while loop
Mon_ManageQuotaStep ==
    /\ spc = "loop"
    /\ impl = "monitoring"
    /\ LoopCond
    /\ i < Len(_files)
    /\ LET to_remove == _files[i + 1]
       IN \E ok \in BOOLEAN :
            /\ ok => to_remove \in disk
            /\ IF ok
               THEN /\ disk' = disk \ {to_remove}
                    /\ removed' = removed + 1
                    /\ _files' = DelAt(_files, i)
                    /\ _file_sizes' = DelAt(_file_sizes, i)
                    /\ i' = 0
                    /\ evicted' = evicted \cup {to_remove}
                    /\ total_size' = Sum(DelAt(_file_sizes, i))
                    /\ UNCHANGED failed
               ELSE /\ i' = i + 1
                    /\ failed' = failed \cup {to_remove}
                    /\ total_size' = Sum(_file_sizes)
                    /\ UNCHANGED <<disk, removed, _files, _file_sizes, evicted>>
    /\ attempts' = attempts + 1
    /\ UNCHANGED <<impl, quota, spc, removed_size, tracked0, sizes0>>
    /\ UNCHANGED <<wvars, ovars>>
    /\ UNCHANGED xvars

\* monitoring.py: self._files[i] with i past the end raises IndexError
Mon_ManageQuotaIndexError ==
    /\ spc = "loop"
    /\ impl = "monitoring"
    /\ LoopCond
    /\ i >= Len(_files)
    /\ spc' = "raised"
    /\ UNCHANGED <<impl, _files, _file_sizes, quota, disk, total_size, removed,
                   removed_size, i, attempts, tracked0, sizes0, evicted, failed>>
    /\ UNCHANGED <<wvars, ovars>>
    /\ UNCHANGED xvars

\* monitoring.py: the loop has ended; the quota report
Mon_ManageQuotaReport ==
    /\ spc = "loop"
    /\ impl = "monitoring"
    /\ ~LoopCond
    /\ spc' = "returned"
    /\ UNCHANGED <<impl, _files, _file_sizes, quota, disk, total_size, removed,
                   removed_size, i, attempts, tracked0, sizes0, evicted, failed>>
    /\ UNCHANGED <<wvars, ovars>>
    /\ UNCHANGED xvars

(***************************************************************************)
(* filewriter.py: time                                                     *)
(***************************************************************************)
\* Time tags count ticks of 1/FS second; datetimes are whole seconds here.
FS == 2
CHAN_BW == FS

\* FileWriterBase._margin = timedelta(seconds=1)
_margin == 1

\* common.timetag_to_tuple: (whole seconds, fraction of a second)
timetag_to_tuple(time_tag) == <<time_tag \div FS, time_tag % FS>>

\* common.datetime_to_timetag
datetime_to_timetag(dt) == dt * FS

\* Python's order on (seconds, fraction) tuples
TupleLess(a, b) == a[1] < b[1] \/ (a[1] = b[1] /\ a[2] < b[2])

RECURSIVE bisect_left(_, _, _, _)
\* bisect.bisect_left(a, x) on a 0-based list held as a sequence
bisect_left(a, x, lo, hi) ==
    IF lo < hi
    THEN LET mid == (lo + hi) \div 2
         IN IF TupleLess(a[mid + 1], x)
            THEN bisect_left(a, x, mid + 1, hi)
            ELSE bisect_left(a, x, lo, mid)
    ELSE lo

RECURSIVE bisect_right(_, _, _, _)
\* bisect.bisect_right(a, x)
bisect_right(a, x, lo, hi) ==
    IF lo < hi
    THEN LET mid == (lo + hi) \div 2
         IN IF TupleLess(x, a[mid + 1])
            THEN bisect_right(a, x, lo, mid)
            ELSE bisect_right(a, x, mid + 1, hi)
    ELSE lo

(***************************************************************************)
(* FileWriterBase                                                          *)
(***************************************************************************)
\* FileWriterBase.__init__ (MeasurementSetWriter.__init__ passes no reduction)
NewWriter(cls, start_time, stop_time, reduction, linked, on_disk) ==
    [cls |-> cls,
     start_time |-> start_time,
     stop_time |-> stop_time,
     reduction |-> reduction,
     _padded_start_time |-> start_time - _margin,
     _padded_stop_time |-> stop_time + _margin,
     _queue |-> linked,          \* linked with an OperationQueue or None
     _started |-> FALSE,
     _interface |-> "None",      \* None, or an open or closed h5py file
     _time_step |-> None,        \* attribute set by start()
     _start_time_tag |-> None,
     _stop_time_tag |-> None,
     chunks |-> 0,               \* length of the datasets start() allocates
     _time |-> <<>>,             \* the time dataset: index -> stored tuple
     _counter |-> 0,
     stop |-> "method",          \* the attribute stop: the method, or a datetime
     on_disk |-> on_disk,        \* os.path.exists(self.filename)
     post_calls |-> 0,           \* invocations of post_stop_task
     tarred |-> 0]               \* runs of tar czf that made the archive

\* FileWriterBase.utcnow
utcnow(f) == IF f._queue THEN clock - lag ELSE clock

\* is_active with the padded bounds excluded
is_active_Strict(f, now) ==
    now > f._padded_start_time /\ now < f._padded_stop_time

\* FileWriterBase.is_active, at current time now
is_active(f, now) ==
    now >= f._padded_start_time /\ now <= f._padded_stop_time

\* FileWriterBase.is_expired, at current time now
is_expired(f, now) == now > f._padded_stop_time

\* How a call ended: the call, its arguments, its result, and is_active /
\* is_started on entry
Outcome(op, args, res, f) ==
    [op |-> op, args |-> args, res |-> res,
     active |-> is_active(f, utcnow(f)), started |-> f._started]

(***************************************************************************)
(* HDF5Writer                                                              *)
(***************************************************************************)
\* reductions[0], the time factor; 1 when self.reduction is None
TimeFactor(f) == IF f.reduction = 0 THEN 1 ELSE f.reduction

\* HDF5Writer.start
HDF5_start(f, navg0) ==
    LET navg == navg0 * TimeFactor(f)
        \* int((stop_time - start_time).total_seconds() / (navg / CHAN_BW)) + 1
        chunks == (((f.stop_time - f.start_time) * CHAN_BW) \div navg) + 1
    IN [f EXCEPT !._interface = "open",
                 !.on_disk = TRUE,
                 !.chunks = chunks,
                 !._time = <<>>,
                 !._time_step = <<navg * (FS \div CHAN_BW)>>,
                 !._start_time_tag = timetag_to_tuple(datetime_to_timetag(f.start_time)),
                 !._stop_time_tag = timetag_to_tuple(datetime_to_timetag(f.stop_time)),
                 !._counter = 0,
                 !._started = TRUE]

\* time_tags of HDF5Writer.write: one tuple per sample of the block
TimeTags(time_tag, n, time_step) ==
    [k \in 1..n |-> timetag_to_tuple(time_tag + (k - 1) * time_step)]

\* the data selection with bisect_left in the flush-out branch
Selection_FlushLeft(time_tags, start_tag, stop_tag) ==
    IF TupleLess(time_tags[1], start_tag)
    THEN LET offset == bisect_left(time_tags, start_tag, 0, Len(time_tags))
         IN [size |-> Len(time_tags) - offset,
             range_start |-> offset, range_stop |-> Len(time_tags)]
    ELSE IF TupleLess(stop_tag, time_tags[Len(time_tags)])
    THEN LET offset == bisect_left(time_tags, stop_tag, 0, Len(time_tags))
         IN [size |-> offset, range_start |-> 0, range_stop |-> offset]
    ELSE [size |-> Len(time_tags), range_start |-> 0,
          range_stop |-> Len(time_tags)]

\* HDF5Writer.write, data selection: the accepted range of the block
Selection(time_tags, start_tag, stop_tag) ==
    IF TupleLess(time_tags[1], start_tag)
    THEN \* Lead in
         LET offset == bisect_left(time_tags, start_tag, 0, Len(time_tags))
         IN [size |-> Len(time_tags) - offset,
             range_start |-> offset, range_stop |-> Len(time_tags)]
    ELSE IF TupleLess(stop_tag, time_tags[Len(time_tags)])
    THEN \* Flush out
         LET offset == bisect_right(time_tags, stop_tag, 0, Len(time_tags))
         IN [size |-> offset, range_start |-> 0, range_stop |-> offset]
    ELSE \* Fully contained
         [size |-> Len(time_tags), range_start |-> 0,
          range_stop |-> Len(time_tags)]

\* dataset[c:c+size] = values
SliceAssign(ds, c, values) ==
    [k \in (DOMAIN ds) \cup ((c + 1)..(c + Len(values))) |->
        IF k \in (c + 1)..(c + Len(values)) THEN values[k - c] ELSE ds[k]]

\* self.reduction(data): the number of time samples left by the reduction
ReducedLen(f, rawlen) == rawlen \div TimeFactor(f)

\* the checks on entry with an unstarted file treated like an inactive one
WriteGate_Silent(f, now) ==
    IF ~is_active(f, now) \/ ~f._started THEN "False" ELSE "go"

\* HDF5Writer.write, the checks on entry: "False" is returned, "RuntimeError"
\* is raised, "go" lets the block through
WriteGate(f, now) ==
    IF ~is_active(f, now) THEN "False"
    ELSE IF ~f._started THEN "RuntimeError"
    ELSE "go"

\* HDF5Writer.write: the writer after the call and the call's result
HDF5_write(f, now, time_tag, rawlen) ==
    IF WriteGate(f, now) # "go"
    THEN [f |-> f, res |-> WriteGate(f, now)]
    ELSE LET n == ReducedLen(f, rawlen)
             time_tags == TimeTags(time_tag, n, f._time_step[1])
             sel == Selection(time_tags, f._start_time_tag, f._stop_time_tag)
             values == SubSeq(time_tags, sel.range_start + 1, sel.range_stop)
         IN IF f._interface # "open" \/ f._counter + sel.size > f.chunks
            THEN \* the sink refuses: closed file, or past the allocation
                 [f |-> f, res |-> "SinkError"]
            ELSE [f |-> [f EXCEPT !._time = SliceAssign(f._time, f._counter, values),
                                  !._counter = f._counter + sel.size],
                  res |-> "None"]

(***************************************************************************)
(* MeasurementSetWriter                                                    *)
(***************************************************************************)
\* MeasurementSetWriter.start: the template is created, the metadata saved
MS_start(f, navg) ==
    [f EXCEPT !._time_step = <<navg * (FS \div CHAN_BW)>>,
              !._started = TRUE]

\* tagname of MeasurementSetWriter.write: the time tag formatted to the second
TagName(time_tag) == time_tag \div FS

\* MeasurementSetWriter.write: the result of the call; tmpl says whether the
\* template exists for cp -r
MS_write(f, tmpl) ==
    IF f._time_step = None
    THEN "AttributeError"
    ELSE IF ~tmpl
    THEN "CalledProcessError"
    ELSE "None"

(***************************************************************************)
(* stop() and cancel()                                                     *)
(***************************************************************************)
\* self._interface.close(), AttributeError on None swallowed
Close(iface) == IF iface = "None" THEN "None" ELSE "closed"

\* stop() with every exception of post_stop_task swallowed
Base_stop_Swallow(f, tar_ok) ==
    LET closed == [f EXCEPT !._interface = Close(f._interface)]
    IN IF ~f.on_disk
       THEN [f |-> closed, res |-> "None"]
       ELSE IF f.cls = "TarredFileWriterBase" /\ tar_ok
       THEN [f |-> [closed EXCEPT !.post_calls = f.post_calls + 1,
                                  !.tarred = f.tarred + 1],
             res |-> "None"]
       ELSE [f |-> [closed EXCEPT !.post_calls = f.post_calls + 1],
             res |-> "None"]

\* FileWriterBase.stop (HDF5Writer, TarredFileWriterBase): tar_ok says whether
\* tar czf exits with 0
Base_stop(f, tar_ok) ==
    LET closed == [f EXCEPT !._interface = Close(f._interface)]
    IN IF ~f.on_disk
       THEN [f |-> closed, res |-> "None"]
       ELSE IF f.cls = "TarredFileWriterBase"
       THEN IF tar_ok
            THEN [f |-> [closed EXCEPT !.post_calls = f.post_calls + 1,
                                       !.tarred = f.tarred + 1],
                  res |-> "None"]
            ELSE [f |-> [closed EXCEPT !.post_calls = f.post_calls + 1],
                  res |-> "CalledProcessError"]
       ELSE \* post_stop_task raises NotImplementedError, which is swallowed
            [f |-> [closed EXCEPT !.post_calls = f.post_calls + 1],
             res |-> "None"]

\* MeasurementSetWriter.stop: the result of the call; the template and the
\* scratch directory are removed when it succeeds
MS_stop(f, tmpl) ==
    IF ~f._started
    THEN "AttributeError"        \* no self._template yet
    ELSE IF ~tmpl
    THEN "FileNotFoundError"     \* shutil.rmtree of a missing template
    ELSE "None"

\* self.stop(): the call through the instance attribute, which cancel() may
\* have replaced by a datetime. The writer, the template, the scratch
\* directory and the result after the call.
CallStop(f, tmpl, tdir, tar_ok) ==
    IF f.stop # "method"
    THEN [f |-> f, template |-> tmpl, tempdir |-> tdir, res |-> "TypeError"]
    ELSE IF f.cls = "MeasurementSetWriter"
    THEN LET res == MS_stop(f, tmpl)
         IN IF res = "None"
            THEN [f |-> [f EXCEPT !.post_calls = f.post_calls + 1],
                  template |-> FALSE, tempdir |-> FALSE, res |-> res]
            ELSE [f |-> f, template |-> tmpl, tempdir |-> tdir, res |-> res]
    ELSE LET r == Base_stop(f, tar_ok)
         IN [f |-> r.f, template |-> tmpl, tempdir |-> tdir, res |-> r.res]

\* FileWriterBase.cancel, last line: datetime.utcnow() - 2*self._margin is bound
\* to the attribute stop. Nothing reads the value back, so only its type is
\* kept; stop_time and _padded_stop_time are left as they are.
CancelAssign(f) == [f EXCEPT !.stop = "datetime"]

(***************************************************************************)
(* monitoring.py: StatusLogger, the health aggregation                     *)
(***************************************************************************)
\* A monitor point is None or <<[value, timestamp]>>. Fractions (the missing
\* fraction, the thresholds) are held in thousandths; the disk-free ratio is
\* the exact quotient free / total.

\* the literals 0.99 and 0.01 of the health table, in thousandths
DiskThreshold == 990
MissingThreshold == 10

\* MonitorPoint(value) with the timestamp given
MonitorPoint(value, timestamp) == [value |-> value, timestamp |-> timestamp]

\* Client.write_monitor_point on the store st
write_monitor_point(st, name, value, timestamp) ==
    [st EXCEPT ![name] = <<MonitorPoint(value, timestamp)>>]

Min(S) == CHOOSE x \in S : \A y \in S : x <= y
Max(S) == CHOOSE x \in S : \A y \in S : x >= y

\* 1.0*free.value / total.value < 0.99, and > 0.99
DfreeBelow(free, total) == free.value * 1000 < DiskThreshold * total.value
DfreeAbove(free, total) == free.value * 1000 > DiskThreshold * total.value

\* the timestamp of the newest of the points
Stamp_Newest(missing, processing, total, free) ==
    Max({missing.timestamp, processing.timestamp, total.timestamp,
         free.timestamp})

\* ts = min([v.timestamp for v in (missing, processing, total, free)])
Stamp(missing, processing, total, free) ==
    Min({missing.timestamp, processing.timestamp, total.timestamp,
         free.timestamp})

\* the if / elif chain of StatusLogger.main: <<summary, info>>; the figures
\* formatted into info are left out
HealthTable(missing, total, free) ==
    IF DfreeBelow(free, total) /\ missing.value < MissingThreshold
    THEN <<"normal", "A-OK">>
    ELSE IF DfreeAbove(free, total) /\ missing.value < MissingThreshold
    THEN <<"warning", "no space">>
    ELSE IF DfreeBelow(free, total) /\ missing.value > MissingThreshold
    THEN <<"warning", "missing packets">>
    ELSE <<"error", "it's bad">>

\* One pass of the body with an absent disk metric replaced by a default (an
\* empty disk of one byte), as is done for the missing fraction
StatusBody_Guess(st, now, active) ==
    LET name == IF active THEN "filename" ELSE "None"
        st1 == write_monitor_point(
                   write_monitor_point(st, "op-type", name, now),
                   "op-tag", name, now)
        missing == IF st1["bifrost/rx_missing"] = None
                   THEN MonitorPoint(0, now)
                   ELSE st1["bifrost/rx_missing"][1]
        processing == st1["bifrost/max_process"]
        total == IF st1["storage/active_disk_size"] = None
                 THEN <<MonitorPoint(1, now)>>
                 ELSE st1["storage/active_disk_size"]
        free == IF st1["storage/active_disk_free"] = None
                THEN <<MonitorPoint(0, now)>>
                ELSE st1["storage/active_disk_free"]
    IN IF total[1].value = 0
       THEN [store |-> st1, exc |-> "ZeroDivisionError"]
       ELSE IF processing = None
       THEN [store |-> st1, exc |-> "AttributeError"]
       ELSE LET ts == Stamp(missing, processing[1], total[1], free[1])
                row == HealthTable(missing, total[1], free[1])
            IN [store |-> write_monitor_point(
                              write_monitor_point(st1, "summary", row[1], ts),
                              "info", row[2], ts),
                exc |-> "None"]

\* One pass of the body of StatusLogger.main on the store st at time now,
\* the queue having an active operation or not: the store after the pass and
\* the exception that ended it.
StatusBody(st, now, active) ==
    LET name == IF active THEN "filename" ELSE "None"
        st1 == write_monitor_point(
                   write_monitor_point(st, "op-type", name, now),
                   "op-tag", name, now)
        \* an absent missing fraction is replaced by MonitorPoint(0.0), which
        \* is stamped with the time of its construction
        missing == IF st1["bifrost/rx_missing"] = None
                   THEN MonitorPoint(0, now)
                   ELSE st1["bifrost/rx_missing"][1]
        processing == st1["bifrost/max_process"]
        total == st1["storage/active_disk_size"]
        free == st1["storage/active_disk_free"]
    IN IF free = None \/ total = None
       THEN [store |-> st1, exc |-> "AttributeError"]      \* None.value
       ELSE IF total[1].value = 0
       THEN [store |-> st1, exc |-> "ZeroDivisionError"]
       ELSE IF processing = None
       THEN [store |-> st1, exc |-> "AttributeError"]      \* None.timestamp
       ELSE LET ts == Stamp(missing, processing[1], total[1], free[1])
                row == HealthTable(missing, total[1], free[1])
            IN [store |-> write_monitor_point(
                              write_monitor_point(st1, "summary", row[1], ts),
                              "info", row[2], ts),
                exc |-> "None"]

(***************************************************************************)
(* The calls a scheduler makes on a window, and the environment            *)
(***************************************************************************)
\* start(...) on window w with averaging factor navg
Start(w, navg) ==
    /\ w \in wins
    /\ LET f == win[w]
       IN CASE f.cls = "HDF5Writer" ->
                 /\ win' = [win EXCEPT ![w] = HDF5_start(f, navg)]
                 /\ ret' = [ret EXCEPT ![w] = Outcome("start", <<navg>>, "None", f)]
                 /\ UNCHANGED <<tempdir, template>>
            [] f.cls = "MeasurementSetWriter" ->
                 /\ win' = [win EXCEPT ![w] = MS_start(f, navg)]
                 /\ ret' = [ret EXCEPT ![w] = Outcome("start", <<navg>>, "None", f)]
                 /\ template' = TRUE
                 /\ tempdir' = TRUE
            [] OTHER ->
                 \* FileWriterBase.start raises NotImplementedError
                 /\ ret' = [ret EXCEPT ![w] = Outcome("start", <<navg>>,
                                                   "NotImplementedError", f)]
                 /\ UNCHANGED <<win, tempdir, template>>
    /\ UNCHANGED <<clock, lag, wins, n_write, n_stop, n_cancel, artifacts>>
    /\ UNCHANGED <<qvars, ovars>>
    /\ UNCHANGED xvars

\* write(time_tag, data) on window w, data holding n samples after reduction
Write(w, time_tag, n) ==
    /\ w \in wins
    /\ n_write[w] < MaxWrites
    /\ n_write' = [n_write EXCEPT ![w] = @ + 1]
    /\ LET f == win[w]
       IN CASE f.cls = "HDF5Writer" ->
                 LET r == HDF5_write(f, utcnow(f), time_tag, n * TimeFactor(f))
                 IN /\ win' = [win EXCEPT ![w] = r.f]
                    /\ ret' = [ret EXCEPT ![w] = Outcome("write", <<time_tag, n>>, r.res, f)]
                    /\ UNCHANGED artifacts
            [] f.cls = "MeasurementSetWriter" ->
                 LET res == MS_write(f, template)
                 IN /\ ret' = [ret EXCEPT ![w] = Outcome("write", <<time_tag, n>>, res, f)]
                    /\ artifacts' = IF res = "None"
                                    THEN artifacts \cup {<<w, TagName(time_tag)>>}
                                    ELSE artifacts
                    /\ UNCHANGED win
            [] OTHER ->
                 \* FileWriterBase.write raises NotImplementedError
                 /\ ret' = [ret EXCEPT ![w] = Outcome("write", <<time_tag, n>>,
                                                   "NotImplementedError", f)]
                 /\ UNCHANGED <<win, artifacts>>
    /\ UNCHANGED <<clock, lag, wins, n_stop, n_cancel, tempdir, template>>
    /\ UNCHANGED <<qvars, ovars>>
    /\ UNCHANGED xvars

\* stop() on window w
Stop(w) ==
    /\ w \in wins
    /\ n_stop[w] < MaxStops
    /\ n_stop' = [n_stop EXCEPT ![w] = @ + 1]
    /\ \E tar_ok \in BOOLEAN :
          LET r == CallStop(win[w], template, tempdir, tar_ok)
          IN /\ win' = [win EXCEPT ![w] = r.f]
             /\ template' = r.template
             /\ tempdir' = r.tempdir
             /\ ret' = [ret EXCEPT ![w] = Outcome("stop", <<>>, r.res, win[w])]
    /\ UNCHANGED <<clock, lag, wins, n_write, n_cancel, artifacts>>
    /\ UNCHANGED <<qvars, ovars>>
    /\ UNCHANGED xvars

\* cancel() on window w
Cancel(w) ==
    /\ w \in wins
    /\ n_cancel[w] < MaxCancels
    /\ n_cancel' = [n_cancel EXCEPT ![w] = @ + 1]
    /\ LET f == win[w]
       IN IF is_active(f, utcnow(f))
          THEN \E tar_ok \in BOOLEAN :
                 LET r == CallStop(f, template, tempdir, tar_ok)
                 IN /\ win' = [win EXCEPT ![w] =
                                  IF r.res = "None" THEN CancelAssign(r.f)
                                                    ELSE r.f]
                    /\ template' = r.template
                    /\ tempdir' = r.tempdir
                    /\ ret' = [ret EXCEPT ![w] = Outcome("cancel", <<>>, r.res, f)]
          ELSE /\ win' = [win EXCEPT ![w] = CancelAssign(f)]
               /\ ret' = [ret EXCEPT ![w] = Outcome("cancel", <<>>, "None", f)]
               /\ UNCHANGED <<template, tempdir>>
    /\ UNCHANGED <<clock, lag, wins, n_write, n_stop, artifacts>>
    /\ UNCHANGED <<qvars, ovars>>
    /\ UNCHANGED xvars

\* the wall clock advances
Tick ==
    /\ clock < MaxClock
    /\ clock' = clock + 1
    /\ UNCHANGED <<lag, wins, win, ret, n_write, n_stop, n_cancel, tempdir, template,
                   artifacts>>
    /\ UNCHANGED <<qvars, ovars>>
    /\ UNCHANGED xvars

\* the linked queue reports another pipeline lag
SetLag ==
    /\ \E w \in wins : win[w]._queue
    /\ \E l \in Lags \ {lag} : lag' = l
    /\ UNCHANGED <<clock, wins, win, ret, n_write, n_stop, n_cancel, tempdir, template,
                   artifacts>>
    /\ UNCHANGED <<qvars, ovars>>
    /\ UNCHANGED xvars

(***************************************************************************)
(* Initial states                                                          *)
(***************************************************************************)
\* Windows start at WinStart (seconds).
WinStart == 2
Classes == {"HDF5Writer", "MeasurementSetWriter", "TarredFileWriterBase"}

NoCall ==
    [op |-> "none", args |-> <<>>, res |-> "None", active |-> FALSE,
     started |-> FALSE]

\* a window that is never constructed
Absent == NewWriter("HDF5Writer", WinStart, WinStart + 1, 0, FALSE, FALSE)

\* The windows ws have been constructed, of the classes cs, lasting one of the
\* durations ds, at wall-clock time t0.
WriterInit(ws, cs, ds, t0) ==
    /\ clock = t0
    /\ lag = 0
    /\ wins = ws
    /\ \E cls \in [ws -> cs], d \in [ws -> ds],
          red \in [ws -> Reductions], linked \in [ws -> BOOLEAN],
          on_disk \in [ws -> BOOLEAN] :
          /\ \A w \in ws : cls[w] # "HDF5Writer" => red[w] = 0
          /\ \A w \in ws : cls[w] # "TarredFileWriterBase" => ~on_disk[w]
          /\ win = [w \in Windows |->
                      IF w \in ws
                      THEN NewWriter(cls[w], WinStart, WinStart + d[w], red[w],
                                     linked[w], on_disk[w])
                      ELSE Absent]
          \* MeasurementSetWriter.__init__ makes the scratch directory
          /\ tempdir = (\E w \in ws : cls[w] = "MeasurementSetWriter")
    /\ ret = [w \in Windows |-> NoCall]
    /\ n_write = [w \in Windows |-> 0]
    /\ n_stop = [w \in Windows |-> 0]
    /\ n_cancel = [w \in Windows |-> 0]
    /\ template = FALSE
    /\ artifacts = {}

\* the StorageLogger is not running
QuotaIdle ==
    /\ impl = "quota_manager"
    /\ _files = <<>>
    /\ _file_sizes = <<>>
    /\ quota = None
    /\ disk = {}
    /\ spc = "idle"
    /\ total_size = 0
    /\ removed = 0
    /\ removed_size = 0
    /\ i = 0
    /\ attempts = 0
    /\ tracked0 = <<>>
    /\ sizes0 = <<>>
    /\ evicted = {}
    /\ failed = {}

\* no window is constructed
WriterIdle ==
    /\ clock = 0
    /\ lag = 0
    /\ wins = {}
    /\ win = [w \in Windows |-> Absent]
    /\ ret = [w \in Windows |-> NoCall]
    /\ n_write = [w \in Windows |-> 0]
    /\ n_stop = [w \in Windows |-> 0]
    /\ n_cancel = [w \in Windows |-> 0]
    /\ tempdir = FALSE
    /\ template = FALSE
    /\ artifacts = {}

\* The names of the monitor points the loggers read and write.
Points ==
    {"bifrost/rx_missing", "bifrost/max_process", "storage/active_disk_size",
     "storage/active_disk_free", "storage/active_directory",
     "storage/active_directory_size", "storage/active_directory_count",
     "summary", "info", "op-type", "op-tag"}

\* the paths a directory may hold, in name order
Paths == 1..MaxFiles

\* the threads of stop() and cancel()
Threads == {"stop", "cancel"}

\* GlobalLogger.main does not run
GlobalIdle ==
    /\ gpc = "idle"
    /\ t_now = 0
    /\ t_perf = 0
    /\ t_storage = 0
    /\ t_status = 0
    /\ polls = 0

\* no thread is inside stop() or cancel()
RaceIdle ==
    /\ tpc = [t \in Threads |-> "idle"]
    /\ tres = [t \in Threads |-> "None"]

\* no cycle has computed its sleep
SleepIdle ==
    /\ update_interval = 0
    /\ runtime = 0
    /\ t_sleep = None

\* the quota manager program has not been launched
LaunchIdle ==
    /\ lpc = "idle"
    /\ sig = FALSE

\* the scan has not run, and none of the above
ExtraIdle ==
    /\ known = {}
    /\ GlobalIdle
    /\ RaceIdle
    /\ SleepIdle
    /\ LaunchIdle

\* no logger thread runs, the directory and the metrics store are empty
DaemonIdle ==
    /\ logger = "none"
    /\ once = FALSE
    /\ shutdown = FALSE
    /\ mpc = "idle"
    /\ cycles = 0
    /\ sleeps = 0
    /\ sleep_left = 0
    /\ late = 0
    /\ dsize = [p \in Paths |-> 0]
    /\ quota_arg = None
    /\ exc = "None"
    /\ store = [k \in Points |-> None]

(***************************************************************************)
(* Specification of one recording window over its life: any class, the     *)
(* clock running from before the window to after it, the lag changing, and *)
(* start, write, stop and cancel called in any order.                      *)
(***************************************************************************)
\* Blocks written over the life of a window: they begin in its first second.
LifeTags == {datetime_to_timetag(WinStart), datetime_to_timetag(WinStart) + 1}
LifeLens == {1, 2}

InitWriter ==
    WriterInit({1}, Classes, {1}, 0) /\ QuotaIdle /\ DaemonIdle /\ ExtraIdle

NextWriter ==
    \/ \E w \in Windows, navg \in NavgSet : Start(w, navg)
    \/ \E w \in Windows, time_tag \in LifeTags, n \in LifeLens :
          Write(w, time_tag, n)
    \/ \E w \in Windows : Stop(w)
    \/ \E w \in Windows : Cancel(w)
    \/ Tick
    \/ SetLag

SpecWriter == InitWriter /\ [][NextWriter]_vars

(***************************************************************************)
(* Specification of the block slicing: an HDF5Writer whose window is       *)
(* active (the clock stands at start_time), started with any averaging     *)
(* factor, written with every block of up to MaxBlock samples that begins  *)
(* up to SliceMargin ticks before the window or ends after it.             *)
(***************************************************************************)
SliceMargin == 3
SliceDurations == {1, 2}
SliceTags ==
    (datetime_to_timetag(WinStart) - SliceMargin)..
        (datetime_to_timetag(WinStart + 2) + SliceMargin)

InitSlice ==
    /\ WriterInit({1}, {"HDF5Writer"}, SliceDurations, WinStart)
    /\ QuotaIdle
    /\ DaemonIdle
    /\ ExtraIdle

NextSlice ==
    \/ \E w \in Windows, navg \in NavgSet : Start(w, navg)
    \/ \E w \in Windows, time_tag \in SliceTags, n \in 1..MaxBlock :
          Write(w, time_tag, n)

SpecSlice == InitSlice /\ [][NextSlice]_vars

(***************************************************************************)
(* Specification of the enforce step: _manage_quota run on every tracked   *)
(* list up to MaxFiles entries, every quota of QuotaSet, and every pattern *)
(* of removal successes and failures.                                      *)
(***************************************************************************)
InitQuota ==
    /\ impl \in {"quota_manager", "monitoring"}
    /\ \E n \in 0..MaxFiles :
          /\ _files = Listing(n)
          /\ _file_sizes \in [1..n -> SizeSet]
          /\ disk = 1..n
          /\ dsize = [p \in Paths |-> IF p <= n THEN _file_sizes[p] ELSE 0]
    /\ quota \in {<<q>> : q \in QuotaSet}
    /\ quota_arg = quota
    /\ spc = "manage"
    /\ total_size = 0
    /\ removed = 0
    /\ removed_size = 0
    /\ i = 0
    /\ attempts = 0
    /\ tracked0 = <<>>
    /\ sizes0 = <<>>
    /\ evicted = {}
    /\ failed = {}
    /\ WriterIdle
    /\ logger = "none"
    /\ once = FALSE
    /\ shutdown = FALSE
    /\ mpc = "idle"
    /\ cycles = 0
    /\ sleeps = 0
    /\ sleep_left = 0
    /\ late = 0
    /\ exc = "None"
    /\ store = [k \in Points |-> None]
    /\ ExtraIdle

NextQuota ==
    \/ ManageQuotaBegin
    \/ QM_ManageQuotaStep
    \/ QM_ManageQuotaReport
    \/ Mon_ManageQuotaStep
    \/ Mon_ManageQuotaIndexError
    \/ Mon_ManageQuotaReport

SpecQuota == InitQuota /\ [][NextQuota]_vars

(***************************************************************************)
(* The daemon loops: main() of quota_manager.StorageLogger and of           *)
(* monitoring.StorageLogger, StatusLogger and PerformanceLogger             *)
(***************************************************************************)
\* Most polling cycles of one run of main(), longest sleep in ticks, and most
\* entries the watched directory holds.
MaxCycles == 2
MaxSleep == 2
MaxDir == 3

\* sizes of the files writers place in the watched directory
DirSizes == {10, 30}

\* what statvfs reports for the disk: <<total, free>> in bytes
StatvfsSet == {<<1000, 500>>}

RECURSIVE SortedSeq(_)
\* list.sort() of a set of paths
SortedSeq(S) == IF S = {} THEN <<>> ELSE <<Min(S)>> \o SortedSeq(S \ {Min(S)})

\* s.index(x): the first 1-based position of x in s
IndexOf(s, x) == Min({k \in DOMAIN s : s[k] = x})

\* StorageLogger.__init__ with the quota kept as given
InitQuotaValue_Keep(q) == q

\* StorageLogger.__init__: if quota == 0: quota = None
InitQuotaValue(q) == IF q = <<0>> THEN None ELSE q

\* the sleep at the end of a cycle is shutdown_event.wait(t_sleep) in
\* quota_manager.py and time.sleep(10) in monitoring.py
SleepInterruptible == logger = "StorageLogger" /\ impl = "quota_manager"

\* the sleeps a cycle may end with, in ticks: t_sleep, or the fixed 10 s
SleepLengths == IF SleepInterruptible THEN 0..MaxSleep ELSE {MaxSleep}

\* while not self.shutdown_event.is_set()
MainWhile ==
    /\ mpc = "while"
    /\ IF shutdown
       THEN mpc' = "returned" /\ UNCHANGED spc
       ELSE /\ cycles < MaxCycles
            /\ mpc' = "body"
            /\ spc' = IF logger = "StorageLogger" THEN "update" ELSE spc
    /\ UNCHANGED <<impl, _files, _file_sizes, quota, disk, total_size, removed,
                   removed_size, i, attempts, tracked0, sizes0, evicted, failed>>
    /\ UNCHANGED <<logger, once, shutdown, cycles, sleeps, sleep_left, late,
                   dsize, quota_arg, exc, store>>
    /\ UNCHANGED wvars
    /\ UNCHANGED xvars

\* the end of the body of a cycle: if once: break, else the sleep begins
EndCycle ==
    /\ cycles' = cycles + 1
    /\ IF once
       THEN /\ mpc' = "returned"
            /\ UNCHANGED <<sleeps, sleep_left>>
       ELSE /\ mpc' = "sleep"
            /\ sleeps' = sleeps + 1
            /\ sleep_left' \in SleepLengths

\* quota_manager.py, StorageLogger._update: getsize is not defined in the
\* module, so the first path that is not tracked yet raises NameError, which
\* the except clause logs; the tracked list is then left as it was
QM_Update ==
    /\ mpc = "body"
    /\ logger = "StorageLogger"
    /\ impl = "quota_manager"
    /\ spc = "update"
    /\ IF \E p \in disk : p \notin Range(_files)
       THEN UNCHANGED <<_files, _file_sizes>>
       ELSE /\ _files' = SortedSeq(disk)
            /\ _file_sizes' = [k \in 1..Cardinality(disk) |->
                                  _file_sizes[IndexOf(_files, SortedSeq(disk)[k])]]
    /\ spc' = IF quota = None THEN "publish" ELSE "manage"
    /\ UNCHANGED <<impl, quota, disk, total_size, removed, removed_size, i,
                   attempts, tracked0, sizes0, evicted, failed>>
    /\ UNCHANGED ovars
    /\ UNCHANGED wvars
    /\ known' = Range(_files)
    /\ UNCHANGED <<gvars, rvars, svars, lvars>>

\* monitoring.py, StorageLogger._update: the listing sorted by modification
\* time (files are created in name order and not modified) and measured anew
Mon_Update ==
    /\ mpc = "body"
    /\ logger = "StorageLogger"
    /\ impl = "monitoring"
    /\ spc = "update"
    /\ _files' = SortedSeq(disk)
    /\ _file_sizes' = [k \in 1..Cardinality(disk) |-> dsize[SortedSeq(disk)[k]]]
    /\ spc' = IF quota = None THEN "publish" ELSE "manage"
    /\ UNCHANGED <<impl, quota, disk, total_size, removed, removed_size, i,
                   attempts, tracked0, sizes0, evicted, failed>>
    /\ UNCHANGED ovars
    /\ UNCHANGED wvars
    /\ known' = Range(_files)
    /\ UNCHANGED <<gvars, rvars, svars, lvars>>

\* StorageLogger.main after the quota management: the disk and directory
\* monitor points are written, then the cycle ends
StoragePublish ==
    /\ mpc = "body"
    /\ logger = "StorageLogger"
    /\ spc \in {"publish", "returned"}
    /\ \E st \in StatvfsSet :
          store' = write_monitor_point(
                     write_monitor_point(
                       write_monitor_point(
                         write_monitor_point(
                           write_monitor_point(store,
                             "storage/active_disk_size", st[1], clock),
                           "storage/active_disk_free", st[2], clock),
                         "storage/active_directory", "directory", clock),
                       "storage/active_directory_size", Sum(_file_sizes), clock),
                     "storage/active_directory_count", Len(_files), clock)
    /\ spc' = "idle"
    /\ EndCycle
    /\ UNCHANGED <<impl, _files, _file_sizes, quota, disk, total_size, removed,
                   removed_size, i, attempts, tracked0, sizes0, evicted, failed>>
    /\ UNCHANGED <<logger, once, shutdown, late, dsize, quota_arg, exc>>
    /\ UNCHANGED wvars
    /\ UNCHANGED xvars

\* an exception of _manage_quota leaves main(): nothing in main() catches it
MainRaise ==
    /\ mpc = "body"
    /\ logger = "StorageLogger"
    /\ spc = "raised"
    /\ mpc' = "raised"
    /\ exc' = IF impl = "quota_manager" THEN "TypeError" ELSE "IndexError"
    /\ UNCHANGED qvars
    /\ UNCHANGED <<logger, once, shutdown, cycles, sleeps, sleep_left, late,
                   dsize, quota_arg, store>>
    /\ UNCHANGED wvars
    /\ UNCHANGED xvars

\* StatusLogger.main: one pass of the body; an exception leaves main()
StatusCycle ==
    /\ mpc = "body"
    /\ logger = "StatusLogger"
    /\ \E active \in BOOLEAN :
          LET r == StatusBody(store, clock, active)
          IN /\ store' = r.store
             /\ exc' = r.exc
             /\ IF r.exc = "None"
                THEN EndCycle
                ELSE /\ mpc' = "raised"
                     /\ UNCHANGED <<cycles, sleeps, sleep_left>>
    /\ UNCHANGED qvars
    /\ UNCHANGED <<logger, once, shutdown, late, dsize, quota_arg>>
    /\ UNCHANGED wvars
    /\ UNCHANGED xvars

\* the missing fractions (thousandths) and processing times a pipeline shows
MissingSet == {1, 10, 20}
ProcessSet == {0}

\* PerformanceLogger.main: one pass of the body. Of its monitor points the
\* two that StatusLogger reads are kept: max_process is always written,
\* rx_missing only when the rates could be computed (rx_ok).
PerfCycle ==
    /\ mpc = "body"
    /\ logger = "PerformanceLogger"
    /\ \E process \in ProcessSet, rx_ok \in BOOLEAN, m \in MissingSet :
          LET st1 == write_monitor_point(store, "bifrost/max_process", process,
                                         clock)
          IN store' = IF rx_ok
                      THEN write_monitor_point(st1, "bifrost/rx_missing", m, clock)
                      ELSE st1
    /\ EndCycle
    /\ UNCHANGED qvars
    /\ UNCHANGED <<logger, once, shutdown, late, dsize, quota_arg, exc>>
    /\ UNCHANGED wvars
    /\ UNCHANGED xvars

\* one tick passes while the thread sleeps; shutdown_event.wait() does not
\* go on waiting once the event is set, time.sleep() does
SleepTick ==
    /\ mpc = "sleep"
    /\ sleep_left > 0
    /\ SleepInterruptible => ~shutdown
    /\ sleep_left' = sleep_left - 1
    /\ late' = IF shutdown THEN late + 1 ELSE late
    /\ UNCHANGED qvars
    /\ UNCHANGED <<logger, once, shutdown, mpc, cycles, sleeps, dsize, quota_arg,
                   exc, store>>
    /\ UNCHANGED wvars
    /\ UNCHANGED xvars

\* the sleep ends: the time is up, or the event woke shutdown_event.wait()
Wake ==
    /\ mpc = "sleep"
    /\ sleep_left = 0 \/ (SleepInterruptible /\ shutdown)
    /\ sleep_left' = 0
    /\ mpc' = "while"
    /\ UNCHANGED qvars
    /\ UNCHANGED <<logger, once, shutdown, cycles, sleeps, late, dsize, quota_arg,
                   exc, store>>
    /\ UNCHANGED wvars
    /\ UNCHANGED xvars

\* shutdown_event.set(), by StorageLogger.shutdown or a signal handler
Shutdown ==
    /\ logger # "none"
    /\ ~shutdown
    /\ shutdown' = TRUE
    /\ UNCHANGED qvars
    /\ UNCHANGED <<logger, once, mpc, cycles, sleeps, sleep_left, late, dsize,
                   quota_arg, exc, store>>
    /\ UNCHANGED wvars
    /\ UNCHANGED xvars

\* a writer places the next file, of the given size, in the directory
CreateFile(size) ==
    /\ logger = "StorageLogger" \/ gpc # "idle"
    /\ LET p == Max(disk \cup Range(_files) \cup {0}) + 1
       IN /\ p <= MaxDir
          /\ disk' = disk \cup {p}
          /\ dsize' = [dsize EXCEPT ![p] = size]
    /\ UNCHANGED <<impl, _files, _file_sizes, quota, spc, total_size, removed,
                   removed_size, i, attempts, tracked0, sizes0, evicted, failed>>
    /\ UNCHANGED <<logger, once, shutdown, mpc, cycles, sleeps, sleep_left, late,
                   quota_arg, exc, store>>
    /\ UNCHANGED wvars
    /\ UNCHANGED xvars

\* quota_manager.py, StorageLogger._reset: the points __init__ writes
QM_Reset(st, now) ==
    write_monitor_point(
      write_monitor_point(
        write_monitor_point(
          write_monitor_point(
            write_monitor_point(st, "storage/active_disk_size", 0, now),
            "storage/active_disk_free", 0, now),
          "storage/active_directory", "directory", now),
        "storage/active_directory_size", 0, now),
      "storage/active_directory_count", 0, now)

\* the metrics a StatusLogger may find when it is run on its own: each of the
\* four points it reads is absent or holds a healthy value
DaemonStores ==
    {[k \in Points |->
        IF k \in present
        THEN <<MonitorPoint(CASE k = "bifrost/rx_missing" -> 1
                              [] k = "bifrost/max_process" -> 0
                              [] k = "storage/active_disk_size" -> 1000
                              [] OTHER -> 500, 0)>>
        ELSE None] :
     present \in SUBSET {"bifrost/rx_missing", "bifrost/max_process",
                         "storage/active_disk_size", "storage/active_disk_free"}}

\* A logger has been constructed and its thread enters main(once).
InitDaemon ==
    /\ logger \in {"StorageLogger", "StatusLogger", "PerformanceLogger"}
    /\ impl \in IF logger = "StorageLogger"
                THEN {"quota_manager", "monitoring"} ELSE {"monitoring"}
    /\ quota_arg \in IF logger = "StorageLogger"
                     THEN {None, <<0>>} \cup {<<q>> : q \in QuotaSet}
                     ELSE {None}
    /\ quota = InitQuotaValue(quota_arg)
    /\ _files = <<>>
    /\ _file_sizes = <<>>
    /\ disk = {}
    /\ dsize = [p \in Paths |-> 0]
    /\ spc = "idle"
    /\ total_size = 0
    /\ removed = 0
    /\ removed_size = 0
    /\ i = 0
    /\ attempts = 0
    /\ tracked0 = <<>>
    /\ sizes0 = <<>>
    /\ evicted = {}
    /\ failed = {}
    /\ once \in BOOLEAN
    /\ shutdown = FALSE
    /\ mpc = "while"
    /\ cycles = 0
    /\ sleeps = 0
    /\ sleep_left = 0
    /\ late = 0
    /\ exc = "None"
    /\ WriterIdle
    /\ ExtraIdle
    /\ store \in IF logger = "StatusLogger" THEN DaemonStores
                 ELSE IF impl = "quota_manager"
                 THEN {QM_Reset([k \in Points |-> None], 0)}
                 ELSE {[k \in Points |-> None]}

\* (The loop of quota_manager's _manage_quota is entered with two tracked
\* entries or more, which QM_Update never provides: its step is not listed.)
NextDaemon ==
    \/ MainWhile
    \/ QM_Update
    \/ Mon_Update
    \/ ManageQuotaBegin
    \/ QM_ManageQuotaReport
    \/ Mon_ManageQuotaStep
    \/ Mon_ManageQuotaIndexError
    \/ Mon_ManageQuotaReport
    \/ StoragePublish
    \/ MainRaise
    \/ StatusCycle
    \/ PerfCycle
    \/ SleepTick
    \/ Wake
    \/ Shutdown
    \/ \E size \in DirSizes : CreateFile(size)

SpecDaemon == InitDaemon /\ [][NextDaemon]_vars

(***************************************************************************)
(* Specification of the health aggregation: StatusLogger.main(once=True),  *)
(* as GlobalLogger.main calls it, on every content of the metrics store:    *)
(* each point absent or present with any value of its set and any timestamp *)
(* up to the current time MaxStamp.                                         *)
(***************************************************************************)
MaxStamp == 2

\* disk sizes and free space (bytes) found in the store
TotalSet == {0, 1000}
FreeSet == {500, 989, 990, 991, 999}

\* the points of name k the store may hold
PointsOf(values) ==
    {None} \cup {<<MonitorPoint(v, t)>> : v \in values, t \in 0..MaxStamp}

InitHealth ==
    /\ logger = "StatusLogger"
    /\ impl = "monitoring"
    /\ once = TRUE
    /\ shutdown = FALSE
    /\ mpc = "while"
    /\ cycles = 0
    /\ sleeps = 0
    /\ sleep_left = 0
    /\ late = 0
    /\ exc = "None"
    /\ dsize = [p \in Paths |-> 0]
    /\ quota_arg = None
    /\ \E missing \in PointsOf(MissingSet), processing \in PointsOf(ProcessSet),
          total \in PointsOf(TotalSet), free \in PointsOf(FreeSet) :
          store = [k \in Points |->
                     CASE k = "bifrost/rx_missing" -> missing
                       [] k = "bifrost/max_process" -> processing
                       [] k = "storage/active_disk_size" -> total
                       [] k = "storage/active_disk_free" -> free
                       [] OTHER -> None]
    /\ _files = <<>>
    /\ _file_sizes = <<>>
    /\ quota = None
    /\ disk = {}
    /\ spc = "idle"
    /\ total_size = 0
    /\ removed = 0
    /\ removed_size = 0
    /\ i = 0
    /\ attempts = 0
    /\ tracked0 = <<>>
    /\ sizes0 = <<>>
    /\ evicted = {}
    /\ failed = {}
    /\ clock = MaxStamp
    /\ lag = 0
    /\ wins = {}
    /\ win = [w \in Windows |-> Absent]
    /\ ret = [w \in Windows |-> NoCall]
    /\ n_write = [w \in Windows |-> 0]
    /\ n_stop = [w \in Windows |-> 0]
    /\ n_cancel = [w \in Windows |-> 0]
    /\ tempdir = FALSE
    /\ template = FALSE
    /\ artifacts = {}
    /\ ExtraIdle

NextHealth ==
    \/ MainWhile
    \/ StatusCycle
    \/ Shutdown

SpecHealth == InitHealth /\ [][NextHealth]_vars

(***************************************************************************)
(* Claims about the enforce step                                           *)
(***************************************************************************)
\* _manage_quota has ended, by returning or by an exception
ManageEnded == spc \in {"returned", "raised"}

C2_NewestNeverRemoved ==
    tracked0 # <<>> => tracked0[Len(tracked0)] \notin evicted

TupleLeq(a, b) == ~TupleLess(b, a)

\* the tuple lies within [start_time, stop_time] of writer f (no margin)
InWindow(f, t) ==
    /\ TupleLeq(timetag_to_tuple(datetime_to_timetag(f.start_time)), t)
    /\ TupleLeq(t, timetag_to_tuple(datetime_to_timetag(f.stop_time)))

\* C4: every sample HDF5Writer.write stores in the sink has a timestamp
\* within [start_time, stop_time], for every block, including one that
\* starts before start_time and ends after stop_time.
C4_StoredWithinWindow ==
    \A w \in wins :
        \A k \in DOMAIN win[w]._time : InWindow(win[w], win[w]._time[k])

\* the step from one state to the next is a call of write() on window w
WriteStep(w) == n_write'[w] = n_write[w] + 1

\* C5: for a block that does not straddle both window boundaries (so for one
\* that straddles exactly one), HDF5Writer.write selects exactly the samples
\* with start_time <= t <= stop_time; when the call returns normally these
\* samples, in order, are stored from the cursor on, nothing else in the
\* sink changes, and the cursor advances by their number.
C5_ExactSlice ==
    [][\A w \in wins :
         (WriteStep(w) /\ win[w].cls = "HDF5Writer"
            /\ ret'[w].res \in {"None", "SinkError"}) =>
           LET f == win[w]
               n == ret'[w].args[2]
               tags == TimeTags(ret'[w].args[1], n, f._time_step[1])
               inside == {k \in 1..n : InWindow(f, tags[k])}
               both == ~InWindow(f, tags[1]) /\ ~InWindow(f, tags[n])
                          /\ TupleLess(tags[1], f._start_time_tag)
                          /\ TupleLess(f._stop_time_tag, tags[n])
               sel == Selection(tags, f._start_time_tag, f._stop_time_tag)
           IN ~both =>
                /\ (sel.range_start + 1)..sel.range_stop = inside
                /\ sel.size = Cardinality(inside)
                /\ ret'[w].res = "None" =>
                     /\ win'[w]._counter = f._counter + Cardinality(inside)
                     /\ \A k \in DOMAIN win'[w]._time :
                          win'[w]._time[k] =
                             IF k \in (f._counter + 1)..(f._counter + Cardinality(inside))
                             THEN tags[sel.range_start + (k - f._counter)]
                             ELSE f._time[k]
                     /\ DOMAIN win'[w]._time =
                          (DOMAIN f._time) \cup
                             ((f._counter + 1)..(f._counter + Cardinality(inside)))
      ]_vars

\* C5 witness: a lead-in block (first sample before start_time, last sample
\* inside) was cut and stored behind samples already in the sink.
C5_Witness ==
    \E w \in wins :
        LET f == win[w]
        IN /\ f.cls = "HDF5Writer"
           /\ ret[w].op = "write"
           /\ ret[w].res = "None"
           /\ LET tags == TimeTags(ret[w].args[1], ret[w].args[2], f._time_step[1])
              IN /\ ~InWindow(f, tags[1])
                 /\ TupleLess(tags[1], f._start_time_tag)
                 /\ InWindow(f, tags[Len(tags)])
                 /\ f._counter > Len(tags) - bisect_left(tags, f._start_time_tag, 0, Len(tags))
                 /\ f._counter = Len(f._time)

\* the classes that implement write()
Concrete == {"HDF5Writer", "MeasurementSetWriter"}

\* C6: write() on a window that is not active returns the not-written
\* result (False) and never raises, for every writer variant, started or not.
C6_InactiveWriteRejected ==
    \A w \in wins :
        (win[w].cls \in Concrete /\ ret[w].op = "write" /\ ~ret[w].active)
            => ret[w].res = "False"

\* what a call that raised ended with
Raised ==
    {"RuntimeError", "AttributeError", "NotImplementedError", "TypeError",
     "CalledProcessError", "FileNotFoundError", "SinkError"}

\* C7: write() on a window that is active but not started raises an error,
\* and as long as start() has not set started to true the sink holds no
\* sample and no artifact has been produced for the window.
C7_NoWriteBeforeStart ==
    \A w \in wins :
        /\ (ret[w].op = "write" /\ ret[w].active /\ ~ret[w].started)
              => ret[w].res \in Raised
        /\ ~win[w]._started =>
              /\ win[w]._time = <<>>
              /\ win[w]._counter = 0
              /\ \A a \in artifacts : a[1] # w

\* C7 witness: a write() reached an active HDF5Writer that was not started
C7_Witness ==
    \E w \in wins :
        /\ win[w].cls = "HDF5Writer"
        /\ ret[w].op = "write"
        /\ ret[w].active
        /\ ~ret[w].started
        /\ ret[w].res = "RuntimeError"

\* C8: after cancel() has returned, the window is never active again and is
\* expired, and every later write() is rejected with the not-written result.
C8_CancelExpires ==
    \A w \in wins :
        win[w].stop = "datetime" =>
            /\ ~is_active(win[w], utcnow(win[w]))
            /\ is_expired(win[w], utcnow(win[w]))
            /\ ret[w].op = "write" => ret[w].res = "False"

\* C9: a stop() that follows a stop() which returned normally raises no
\* error, leaves the on-disk artifacts as they are and does not run the
\* post-processing again.
C9_StopIdempotent ==
    [][\A w \in wins :
         (n_stop'[w] = n_stop[w] + 1 /\ ret[w].op = "stop" /\ ret[w].res = "None") =>
            /\ ret'[w].res = "None"
            /\ win'[w].tarred = win[w].tarred
            /\ win'[w].on_disk = win[w].on_disk
            /\ artifacts' = artifacts
      ]_vars

\* C10: is_active is true exactly when
\* start_time - margin <= now <= stop_time + margin, now being the
\* lag-adjusted current time.
C10_ActiveIffInPaddedWindow ==
    \A w \in wins :
        LET f == win[w]
            now == utcnow(f)
        IN is_active(f, now) <=>
              (f.start_time - _margin <= now /\ now <= f.stop_time + _margin)

\* C10 witness: a linked window is active at its padded stop boundary while
\* the queue reports a lag
C10_Witness ==
    \E w \in wins :
        /\ win[w]._queue
        /\ lag > 0
        /\ utcnow(win[w]) = win[w].stop_time + _margin
        /\ is_active(win[w], utcnow(win[w]))

(***************************************************************************)
(* Claims about the health aggregation                                     *)
(***************************************************************************)
\* the point of the given name in the store; only used when it is present
PointAt(name) == store[name][1]

\* a summary has been published
Published == store["summary"] # None /\ store["info"] # None

\* the missing fraction the cycle worked with: 0 when the point is absent
MissingUsed ==
    IF store["bifrost/rx_missing"] = None THEN 0
    ELSE PointAt("bifrost/rx_missing").value

\* disk OK := r < 0.99 and data OK := m < 0.01 (thousandths)
DiskOK ==
    PointAt("storage/active_disk_free").value * 1000 <
        990 * PointAt("storage/active_disk_size").value
DataOK == MissingUsed < 10

\* C11: every summary the health aggregator publishes follows the 2x2 table
\* over disk OK (ratio < 0.99) and data OK (missing < 0.01): normal when
\* both are OK, warning (no space) when only the disk is not OK, warning
\* (missing packets) when only the data is not OK, error when neither is;
\* the boundary values 0.99 and 0.01 count as not OK.
C11_HealthTable ==
    Published =>
        <<PointAt("summary").value, PointAt("info").value>> =
            IF DiskOK /\ DataOK THEN <<"normal", "A-OK">>
            ELSE IF ~DiskOK /\ DataOK THEN <<"warning", "no space">>
            ELSE IF DiskOK /\ ~DataOK THEN <<"warning", "missing packets">>
            ELSE <<"error", "it's bad">>

\* the points a cycle consults that are present in the store
Consulted ==
    {k \in {"bifrost/rx_missing", "bifrost/max_process",
            "storage/active_disk_size", "storage/active_disk_free"} :
       store[k] # None}

\* C12: summary and info are published with the minimum of the timestamps
\* of the inputs consulted, so with a timestamp that is not newer than any
\* of them.
C12_StampIsMinimum ==
    Published =>
        /\ PointAt("summary").timestamp =
               Min({PointAt(k).timestamp : k \in Consulted})
        /\ PointAt("info").timestamp = PointAt("summary").timestamp
        /\ \A k \in Consulted :
               PointAt("summary").timestamp <= PointAt(k).timestamp

\* a summary is published at the stamp of the oldest input while another
\* input is newer and the missing fraction is absent
C12_Witness ==
    /\ Published
    /\ store["bifrost/rx_missing"] = None
    /\ PointAt("summary").timestamp = 1
    /\ PointAt("bifrost/max_process").timestamp = 1
    /\ PointAt("storage/active_disk_free").timestamp = 2

\* the cycle of main(once=True) has run: main() returned after it or was
\* left by an exception
CycleRan == mpc = "raised" \/ (mpc = "returned" /\ cycles > 0)

\* C13: when a non-disk metric (rx_missing or max_process) is absent and
\* both disk metrics are present (the disk of a size above 0), the cycle
\* raises no error and publishes a summary.
C13_AbsentMetricNeutral ==
    ( /\ CycleRan
      /\ store["storage/active_disk_size"] # None
      /\ store["storage/active_disk_free"] # None
      /\ store["storage/active_disk_size"] # None =>
             PointAt("storage/active_disk_size").value > 0
      /\ \/ store["bifrost/rx_missing"] = None
         \/ store["bifrost/max_process"] = None )
    => (exc = "None" /\ mpc = "returned" /\ Published)

(***************************************************************************)
(* Claims about the daemon loops                                           *)
(***************************************************************************)
\* C14: a removal that fails during eviction is logged and skipped: whatever
\* removals fail, no exception leaves _manage_quota or main().
C14_EvictionFailureSkipped ==
    failed # {} => (spc # "raised" /\ mpc # "raised")

\* C17: with the quota unset or zero no step of the retention manager
\* deletes an entry from disk, over any number of cycles.
C17_NoQuotaNoRemoval ==
    [][(quota_arg = None \/ quota_arg = <<0>>) => disk \subseteq disk']_vars

\* two cycles have run with quota 0 over a directory of two files or more,
\* all tracked and all still on disk
C17_Witness ==
    /\ quota_arg = <<0>>
    /\ cycles = 2
    /\ Len(_files) >= 2
    /\ Sum(_file_sizes) > 0
    /\ Range(_files) \subseteq disk

\* C18: once the shutdown event is set a sleeping daemon sleeps no further
\* tick, and a daemon that is not inside a cycle starts no cycle.
C18_ShutdownEndsSleep ==
    [][shutdown => (late' = late /\ (mpc # "body" => mpc' # "body"))]_vars

\* C19: main(once=True) called with the shutdown event not set runs exactly
\* one polling cycle and returns, without sleeping.
C19_OnceRunsOneCycle ==
    once =>
        /\ sleeps = 0
        /\ mpc \notin {"sleep", "raised"}
        /\ cycles <= 1
        /\ mpc = "returned" => (cycles = 1 \/ shutdown)

\* the position of the loop of _manage_quota in the well-founded order that
\* every iteration descends: the entries left, then the entries left to scan
Rank == Len(_files) * (Len(tracked0) + 2) + (Len(_files) - i)

\* C20: _manage_quota terminates whatever removals fail: every iteration of
\* its loop ends the run or descends in Rank, which stays at or above 0, and
\* the removals attempted never exceed n (n + 1) / 2 for n tracked entries.
C20_ManageQuotaTerminates ==
    [][spc = "loop" =>
          /\ spc' \in {"returned", "raised"} \/ (Rank' < Rank /\ Rank' >= 0)
          /\ 2 * attempts' <= Len(tracked0) * (Len(tracked0) + 1)]_vars

\* a run that ended after a removal failed, was followed by one that
\* succeeded, and the failed entry was attempted again
C20_Witness ==
    /\ ManageEnded
    /\ failed # {}
    /\ evicted # {}
    /\ attempts > Cardinality(failed) + Cardinality(evicted)

(***************************************************************************)
(* Claims about stop() and start()                                         *)
(***************************************************************************)
\* C15: when the archival of post_stop_task fails in stop(), the error
\* reaches the caller, the sink is not open any more and the raw output file
\* is still on disk.
C15_ArchiveFailurePropagates ==
    [][\A w \in Windows :
          ( /\ win[w].cls = "TarredFileWriterBase"
            /\ win'[w].post_calls = win[w].post_calls + 1
            /\ win'[w].tarred = win[w].tarred )
          => ( /\ ret'[w].op \in {"stop", "cancel"}
               /\ ret'[w].res = "CalledProcessError"
               /\ win'[w]._interface # "open"
               /\ win'[w].on_disk )]_vars

\* stop() has ended with the error of a failed archival, the file on disk
C15_Witness ==
    \E w \in wins :
        /\ ret[w].op = "stop"
        /\ ret[w].res = "CalledProcessError"
        /\ win[w].on_disk
        /\ win[w].post_calls = 1
        /\ win[w].tarred = 0

\* C16: start() on a window that is already started raises an error and
\* leaves the window (sink, timing constants, write cursor) as it was.
C16_StartOnce ==
    [][\A w \in Windows :
          ( /\ win[w]._started
            /\ ret'[w].op = "start"
            /\ <<win'[w], ret'[w]>> # <<win[w], ret[w]>> )
          => (ret'[w].res # "None" /\ win'[w] = win[w])]_vars

(***************************************************************************)
(* Claims about the scan and the candidates of the eviction                *)
(***************************************************************************)
\* the step is a call of StorageLogger._update
ScanStep == spc = "update" /\ spc' # "update"

\* C21: after each scan the tracked sequence is the directory listing in
\* ascending name order; an entry tracked before keeps its cached size, an
\* entry not tracked before has its size measured.
C21_ScanTracksListing ==
    [][ScanStep =>
          /\ _files' = SortedSeq(disk)
          /\ Len(_file_sizes') = Len(_files')
          /\ \A k \in DOMAIN _files' :
                _file_sizes'[k] =
                    IF _files'[k] \in Range(_files)
                    THEN _file_sizes[IndexOf(_files, _files'[k])]
                    ELSE dsize[_files'[k]]]_vars

\* C22: the eviction of a cycle removes only entries that were tracked
\* before the scan of that cycle, never an entry that scan discovered.
C22_EvictsOnlyKnown ==
    logger = "StorageLogger" => evicted \subseteq known

(***************************************************************************)
(* Claims about absent disk metrics                                        *)
(***************************************************************************)
\* a disk metric is absent from the metrics store
DiskMetricAbsent ==
    \/ store["storage/active_disk_size"] = None
    \/ store["storage/active_disk_free"] = None

\* C28: when a disk metric is absent the cycle of the health aggregation
\* fails with an error and publishes neither summary nor info.
C28_AbsentDiskFailsCycle ==
    (CycleRan /\ DiskMetricAbsent) =>
        /\ mpc = "raised"
        /\ exc = "AttributeError"
        /\ store["summary"] = None
        /\ store["info"] = None

\* a cycle has failed on a store that lacks the disk size only: the missing
\* fraction, the processing time and the free space are all present
C28_Witness ==
    /\ logger = "StatusLogger"
    /\ mpc = "raised"
    /\ store["op-type"] # None
    /\ store["storage/active_disk_size"] = None
    /\ store["storage/active_disk_free"] # None
    /\ store["bifrost/rx_missing"] # None
    /\ store["bifrost/max_process"] # None
    /\ store["summary"] = None

(***************************************************************************)
(* Claims about stop() and the per-call artifacts                          *)
(***************************************************************************)
\* C26: a call of stop() invokes post-processing only with the sink no
\* longer open and only for an output file that exists on disk.
C26_PostOnlyIfFileExists ==
    [][\A w \in wins :
          win'[w].post_calls > win[w].post_calls =>
              /\ win'[w]._interface # "open"
              /\ win'[w].on_disk]_vars

\* C29: a write of a MeasurementSetWriter that returns normally has made an
\* artifact of its own: a call whose name (the time tag formatted to the
\* second) is that of an earlier artifact of the window fails instead.
C29_ArtifactPerCall ==
    [][\A w \in wins :
          ( /\ WriteStep(w)
            /\ win[w].cls = "MeasurementSetWriter"
            /\ ret'[w].res = "None" )
          => /\ <<w, TagName(ret'[w].args[1])>> \notin artifacts
             /\ Cardinality(artifacts') = Cardinality(artifacts) + 1]_vars

(***************************************************************************)
(* Claims about the write cursor                                           *)
(***************************************************************************)
\* the block of the call of this step on window w begins no earlier than the
\* block of the previous write() ended: the blocks are time-ordered and do
\* not overlap
InOrder(w) ==
    ret[w].op = "write" =>
        ret'[w].args[1] >=
            ret[w].args[1] + ret[w].args[2] * win[w]._time_step[1]

\* C30: over write calls of time-ordered, non-overlapping blocks the write
\* cursor never decreases and never exceeds the record count start()
\* allocated, and no write addresses the sink past that length.
C30_CursorWithinAllocation ==
    [][\A w \in wins :
          (WriteStep(w) /\ win[w]._started /\ InOrder(w)) =>
              /\ ret'[w].res # "SinkError"
              /\ win'[w]._counter >= win[w]._counter
              /\ win'[w]._counter <= win'[w].chunks]_vars

(***************************************************************************)
(* Specification of the sleep of the retention daemon: the end of a cycle  *)
(* of quota_manager.StorageLogger.main for every configured interval from  *)
(* -MaxInterval to MaxInterval seconds and every cycle cost up to          *)
(* MaxRuntime tenths of a second.                                          *)
(***************************************************************************)
MaxInterval == 5
MaxRuntime == 9

\* ALPHA = 0.3, in tenths
ALPHA == 3

\* t_sleep of StorageLogger.main in hundredths of a second, for the interval
\* in seconds and the runtime in tenths of a second
TSleep(interval, cost) ==
    IF interval > 0
    THEN 100 * interval
    ELSE ALPHA * (10 * interval) + (10 - ALPHA) * cost

\* runtime = time.time() - t0, then t_sleep is computed
ComputeSleep ==
    /\ t_sleep = None
    /\ \E cost \in 0..MaxRuntime :
          /\ runtime' = cost
          /\ t_sleep' = <<TSleep(update_interval, cost)>>
    /\ UNCHANGED update_interval
    /\ UNCHANGED <<known, gvars, rvars, lvars>>
    /\ UNCHANGED <<qvars, wvars, ovars>>

\* StorageLogger(..., update_interval=...) has been constructed (the command
\* line accepts any int) and a cycle of main() has published its points
InitSleep ==
    /\ update_interval \in (0 - MaxInterval)..MaxInterval
    /\ runtime = 0
    /\ t_sleep = None
    /\ known = {}
    /\ GlobalIdle
    /\ RaceIdle
    /\ LaunchIdle
    /\ QuotaIdle
    /\ WriterIdle
    /\ DaemonIdle

NextSleep == ComputeSleep

SpecSleep == InitSleep /\ [][NextSleep]_vars

\* the magnitude of a number
Abs(x) == IF x < 0 THEN 0 - x ELSE x

\* C27: the sleep after a cycle is the configured interval when that is
\* positive; otherwise it is 0.3 times the magnitude of the interval plus
\* 0.7 times the cycle cost, and so never negative.
C27_SleepLength ==
    t_sleep # None =>
        /\ update_interval > 0 => t_sleep[1] = 100 * update_interval
        /\ update_interval <= 0 =>
              /\ t_sleep[1] = 30 * Abs(update_interval) + 7 * runtime
              /\ t_sleep[1] >= 0

(***************************************************************************)
(* Specification of two windows in one process: two MeasurementSetWriters  *)
(* constructed in the same process, both active (the clock stands at       *)
(* start_time), with start, write, stop and cancel called on either in any *)
(* order.                                                                  *)
(***************************************************************************)
InitTwo ==
    /\ WriterInit(Windows, {"MeasurementSetWriter"}, {1}, WinStart)
    /\ \A w \in Windows : ~win[w]._queue
    /\ QuotaIdle
    /\ DaemonIdle
    /\ ExtraIdle

\* every call of start() has the same averaging factor and every block is
\* one integration at start_time
NextTwo ==
    \/ \E w \in Windows : Start(w, 1)
    \/ \E w \in Windows : Write(w, datetime_to_timetag(WinStart), 1)
    \/ \E w \in Windows : Stop(w)
    \/ \E w \in Windows : Cancel(w)

SpecTwo == InitTwo /\ [][NextTwo]_vars

\* C24: a started MeasurementSetWriter that is able to complete a write()
\* is still able to after any step that is not a stop() or cancel() of that
\* same window, in particular after the stop() of another window.
C24_WindowsIndependent ==
    [][\A v \in wins :
          ( /\ win[v]._started
            /\ MS_write(win[v], template) = "None"
            /\ n_stop'[v] = n_stop[v]
            /\ n_cancel'[v] = n_cancel[v] )
          => MS_write(win'[v], template') = "None"]_vars

(***************************************************************************)
(* Specification of cancel() racing stop(): one window of a class that     *)
(* uses FileWriterBase.stop, inside its padded window or expired; one      *)
(* thread is inside stop() when a second thread calls cancel(), and the    *)
(* steps of the two calls interleave in any order.                         *)
(***************************************************************************)
\* the classes whose stop() is FileWriterBase.stop
BaseStopClasses == {"HDF5Writer", "TarredFileWriterBase"}

\* the window the two threads work on
RaceWin == 1

\* where a thread goes when the body of stop() returns: the thread that
\* called stop() is done, cancel() goes on to its assignment
AfterStop(t) == IF t = "stop" THEN "done" ELSE "assign"

\* what the thread steps leave alone
RaceFrame ==
    /\ UNCHANGED <<clock, lag, wins, ret, n_write, n_stop, n_cancel, tempdir,
                   template, artifacts>>
    /\ UNCHANGED <<qvars, ovars>>
    /\ UNCHANGED <<known, gvars, svars, lvars>>

\* start() before either thread has made its call
RaceStart ==
    /\ \A t \in Threads : tpc[t] = "idle"
    /\ ~win[RaceWin]._started
    /\ Start(RaceWin, 1)

\* a thread calls stop(): the attribute is looked up and called
EnterStop ==
    /\ tpc["stop"] = "idle"
    /\ IF win[RaceWin].stop = "method"
       THEN tpc' = [tpc EXCEPT !["stop"] = "close"] /\ UNCHANGED tres
       ELSE /\ tpc' = [tpc EXCEPT !["stop"] = "done"]
            /\ tres' = [tres EXCEPT !["stop"] = "TypeError"]
    /\ UNCHANGED win
    /\ RaceFrame

\* a second thread calls cancel() while stop() is in flight:
\* if self.is_active: self.stop()
EnterCancel ==
    /\ tpc["cancel"] = "idle"
    /\ tpc["stop"] \notin {"idle", "done"}
    /\ LET f == win[RaceWin]
       IN IF ~is_active(f, utcnow(f))
          THEN tpc' = [tpc EXCEPT !["cancel"] = "assign"] /\ UNCHANGED tres
          ELSE IF f.stop = "method"
          THEN tpc' = [tpc EXCEPT !["cancel"] = "close"] /\ UNCHANGED tres
          ELSE /\ tpc' = [tpc EXCEPT !["cancel"] = "done"]
               /\ tres' = [tres EXCEPT !["cancel"] = "TypeError"]
    /\ UNCHANGED win
    /\ RaceFrame

\* stop(): self._interface.close(), AttributeError swallowed
StepClose(t) ==
    /\ tpc[t] = "close"
    /\ win' = [win EXCEPT ![RaceWin]._interface = Close(@)]
    /\ tpc' = [tpc EXCEPT ![t] = "exists"]
    /\ UNCHANGED tres
    /\ RaceFrame

\* stop(): if os.path.exists(self.filename)
StepExists(t) ==
    /\ tpc[t] = "exists"
    /\ tpc' = [tpc EXCEPT ![t] = IF win[RaceWin].on_disk THEN "post"
                                 ELSE AfterStop(t)]
    /\ UNCHANGED <<win, tres>>
    /\ RaceFrame

\* stop(): self.post_stop_task(); NotImplementedError is swallowed, a failure
\* of tar leaves stop(), and cancel() with it
StepPost(t) ==
    /\ tpc[t] = "post"
    /\ \E tar_ok \in BOOLEAN :
          LET f == win[RaceWin]
          IN IF f.cls = "TarredFileWriterBase" /\ ~tar_ok
             THEN /\ win' = [win EXCEPT ![RaceWin].post_calls = @ + 1]
                  /\ tpc' = [tpc EXCEPT ![t] = "done"]
                  /\ tres' = [tres EXCEPT ![t] = "CalledProcessError"]
             ELSE /\ win' = [win EXCEPT ![RaceWin].post_calls = @ + 1,
                                        ![RaceWin].tarred =
                                            IF f.cls = "TarredFileWriterBase"
                                            THEN @ + 1 ELSE @]
                  /\ tpc' = [tpc EXCEPT ![t] = AfterStop(t)]
                  /\ UNCHANGED tres
    /\ RaceFrame

\* cancel(): self.stop = datetime.utcnow() - 2*self._margin
StepAssign ==
    /\ tpc["cancel"] = "assign"
    /\ win' = [win EXCEPT ![RaceWin] = CancelAssign(@)]
    /\ tpc' = [tpc EXCEPT !["cancel"] = "done"]
    /\ UNCHANGED tres
    /\ RaceFrame

\* the window was constructed inside its padded window or after it
RaceClocks == {WinStart, WinStart + 1 + 2 * _margin}

InitRace ==
    /\ \E t0 \in RaceClocks : WriterInit({RaceWin}, BaseStopClasses, {1}, t0)
    /\ QuotaIdle
    /\ DaemonIdle
    /\ ExtraIdle

NextRace ==
    \/ RaceStart
    \/ EnterStop
    \/ EnterCancel
    \/ \E t \in Threads : StepClose(t)
    \/ \E t \in Threads : StepExists(t)
    \/ \E t \in Threads : StepPost(t)
    \/ StepAssign

SpecRace == InitRace /\ [][NextRace]_vars

\* both calls have ended
RaceOver == \A t \in Threads : tpc[t] = "done"

\* C23: whenever cancel() was called while stop() was in flight on the same
\* window and both calls have ended, neither call raised (a failure of tar
\* itself aside), the sink is not open, and post-processing was invoked
\* exactly once for an output file that exists.
C23_CancelDuringStop ==
    RaceOver =>
        /\ (\A t \in Threads : tres[t] # "CalledProcessError") =>
               (\A t \in Threads : tres[t] = "None")
        /\ win[RaceWin]._interface # "open"
        /\ win[RaceWin].post_calls = IF win[RaceWin].on_disk THEN 1 ELSE 0

(***************************************************************************)
(* Specification of GlobalLogger.main: the performance, storage and status *)
(* loggers of monitoring.py run together, each through main(once=True),    *)
(* over MaxPolls iterations of the polling loop. Time is counted in ticks  *)
(* of 5 s.                                                                 *)
(***************************************************************************)
MaxPolls == 2

\* the literals 10.0, 60.0 and 10.0 of GlobalLogger.main, in ticks
PerfPeriod == 2
StoragePeriod == 12
StatusPeriod == 2

\* time.sleep(10) returns after 10 s or somewhat later, in ticks
GlobalSleeps == {2, 3}

\* time.time() when main() is entered: far above t_perf = t_storage =
\* t_status = 0.0
GlobalEpoch == 13

\* the child loggers in the order GlobalLogger.main polls them
Children == <<"PerformanceLogger", "StorageLogger", "StatusLogger">>

\* the position of main() at the poll of child number k, or at the sleep
Slot(k) == IF k <= Len(Children) THEN Children[k] ELSE "sleep"

\* the number of the child being polled
SlotNo == CHOOSE k \in DOMAIN Children : Children[k] = gpc

\* the time of the latest poll of a child, and its period
LastPoll(c) ==
    CASE c = "PerformanceLogger" -> t_perf
      [] c = "StorageLogger" -> t_storage
      [] c = "StatusLogger" -> t_status

Period(c) ==
    CASE c = "PerformanceLogger" -> PerfPeriod
      [] c = "StorageLogger" -> StoragePeriod
      [] c = "StatusLogger" -> StatusPeriod

\* if t_now - t_perf > 10.0, and likewise for storage and status
Due(c) == t_now - LastPoll(c) > Period(c)

\* what the steps of GlobalLogger.main itself leave alone
GlobalFrame ==
    /\ UNCHANGED qvars
    /\ UNCHANGED <<lag, wins, win, ret, n_write, n_stop, n_cancel, tempdir,
                   template, artifacts>>
    /\ UNCHANGED <<shutdown, sleeps, sleep_left, late, dsize, quota_arg, exc,
                   store>>
    /\ UNCHANGED <<known, rvars, svars, lvars>>

\* while not self.shutdown_event.is_set(): t_now = time.time()
G_While ==
    /\ gpc = "while"
    /\ IF shutdown
       THEN gpc' = "returned" /\ UNCHANGED <<t_now, polls>>
       ELSE /\ polls < MaxPolls
            /\ polls' = polls + 1
            /\ t_now' = clock
            /\ gpc' = Slot(1)
    /\ UNCHANGED <<t_perf, t_storage, t_status>>
    /\ UNCHANGED <<clock, logger, once, mpc, cycles>>
    /\ GlobalFrame

\* the poll of one child: if it is due its main(once=True) is entered,
\* otherwise the next child is polled
G_Poll ==
    /\ gpc \in Range(Children)
    /\ mpc = "idle"
    /\ IF Due(gpc)
       THEN /\ logger' = gpc
            /\ once' = TRUE
            /\ mpc' = "while"
            /\ cycles' = 0
            /\ UNCHANGED gpc
       ELSE /\ gpc' = Slot(SlotNo + 1)
            /\ UNCHANGED <<logger, once, mpc, cycles>>
    /\ UNCHANGED <<t_now, t_perf, t_storage, t_status, polls>>
    /\ UNCHANGED clock
    /\ GlobalFrame

\* main(once=True) of the child has returned: t_perf = t_now, and likewise
G_Return ==
    /\ gpc \in Range(Children)
    /\ mpc = "returned"
    /\ t_perf' = IF gpc = "PerformanceLogger" THEN t_now ELSE t_perf
    /\ t_storage' = IF gpc = "StorageLogger" THEN t_now ELSE t_storage
    /\ t_status' = IF gpc = "StatusLogger" THEN t_now ELSE t_status
    /\ mpc' = "idle"
    /\ logger' = "GlobalLogger"
    /\ gpc' = Slot(SlotNo + 1)
    /\ UNCHANGED <<t_now, polls>>
    /\ UNCHANGED <<clock, once, cycles>>
    /\ GlobalFrame

\* an exception that left main() of the child leaves GlobalLogger.main:
\* nothing in it catches
G_Raise ==
    /\ gpc \in Range(Children)
    /\ mpc = "raised"
    /\ gpc' = "raised"
    /\ UNCHANGED <<t_now, t_perf, t_storage, t_status, polls>>
    /\ UNCHANGED <<clock, logger, once, mpc, cycles>>
    /\ GlobalFrame

\* time.sleep(10)
G_Sleep ==
    /\ gpc = "sleep"
    /\ \E d \in GlobalSleeps : clock' = clock + d
    /\ gpc' = "while"
    /\ UNCHANGED <<t_now, t_perf, t_storage, t_status, polls>>
    /\ UNCHANGED <<logger, once, mpc, cycles>>
    /\ GlobalFrame

\* the quotas a GlobalLogger is constructed with
GlobalQuotas == {None, <<Min(QuotaSet)>>}

\* GlobalLogger(...) has been constructed and its thread enters main()
InitGlobal ==
    /\ gpc = "while"
    /\ t_now = 0
    /\ t_perf = 0
    /\ t_storage = 0
    /\ t_status = 0
    /\ polls = 0
    /\ known = {}
    /\ RaceIdle
    /\ SleepIdle
    /\ LaunchIdle
    /\ logger = "GlobalLogger"
    /\ impl = "monitoring"
    /\ quota_arg \in GlobalQuotas
    /\ quota = InitQuotaValue(quota_arg)
    /\ _files = <<>>
    /\ _file_sizes = <<>>
    /\ disk = {}
    /\ dsize = [p \in Paths |-> 0]
    /\ spc = "idle"
    /\ total_size = 0
    /\ removed = 0
    /\ removed_size = 0
    /\ i = 0
    /\ attempts = 0
    /\ tracked0 = <<>>
    /\ sizes0 = <<>>
    /\ evicted = {}
    /\ failed = {}
    /\ once = TRUE
    /\ shutdown = FALSE
    /\ mpc = "idle"
    /\ cycles = 0
    /\ sleeps = 0
    /\ sleep_left = 0
    /\ late = 0
    /\ exc = "None"
    /\ store = [k \in Points |-> None]
    /\ clock = GlobalEpoch
    /\ lag = 0
    /\ wins = {}
    /\ win = [w \in Windows |-> Absent]
    /\ ret = [w \in Windows |-> NoCall]
    /\ n_write = [w \in Windows |-> 0]
    /\ n_stop = [w \in Windows |-> 0]
    /\ n_cancel = [w \in Windows |-> 0]
    /\ tempdir = FALSE
    /\ template = FALSE
    /\ artifacts = {}

NextGlobal ==
    \/ G_While
    \/ G_Poll
    \/ G_Return
    \/ G_Raise
    \/ G_Sleep
    \/ MainWhile
    \/ PerfCycle
    \/ Mon_Update
    \/ ManageQuotaBegin
    \/ Mon_ManageQuotaStep
    \/ Mon_ManageQuotaIndexError
    \/ Mon_ManageQuotaReport
    \/ StoragePublish
    \/ MainRaise
    \/ StatusCycle
    \/ Shutdown
    \/ \E size \in DirSizes : CreateFile(size)

SpecGlobal == InitGlobal /\ [][NextGlobal]_vars

\* C25: when an exception of one child logger has ended GlobalLogger.main,
\* no other child logger was due at that poll and left without its cycle.
C25_NoDaemonBlocksAnother ==
    gpc = "raised" =>
        \A k \in DOMAIN Children : Children[k] # logger => ~Due(Children[k])

(***************************************************************************)
(* Claims about expiry                                                     *)
(***************************************************************************)
\* FileWriterBase.utcnow of window w in the state a step leads to
utcnowNext(w) == IF win'[w]._queue THEN clock' - lag' ELSE clock'

\* C31: expiry is permanent: a window that is expired is still expired,
\* and not active, after every step, changes of the pipeline lag included.
C31_ExpiryPermanent ==
    [][\A w \in wins :
          is_expired(win[w], utcnow(win[w])) =>
              /\ is_expired(win'[w], utcnowNext(w))
              /\ ~is_active(win'[w], utcnowNext(w))]_vars

(***************************************************************************)
(* Claims about the tracked list after the enforce step                    *)
(***************************************************************************)
\* the scanned entries that were not removed from disk
Remaining == Range(tracked0) \ evicted

C33_EvictionCycleCompletes ==
    evicted # {} => spc # "raised"

(***************************************************************************)
(* Specification of the quota manager program: main() of quota_manager.py  *)
(* launches StorageLogger.main(once) in a worker thread and waits in       *)
(* signal.pause() for the event of the signal handlers; signals arrive at  *)
(* any time or never.                                                      *)
(***************************************************************************)
\* what the steps of the launcher leave alone
LaunchFrame ==
    /\ UNCHANGED qvars
    /\ UNCHANGED wvars
    /\ UNCHANGED <<logger, once, cycles, sleeps, sleep_left, late, dsize,
                   quota_arg, exc, store>>
    /\ UNCHANGED <<known, gvars, rvars, svars>>

\* for thread in threads: thread.start(): the worker enters op.main(once)
L_Start ==
    /\ lpc = "start"
    /\ mpc = "idle"
    /\ mpc' = "while"
    /\ lpc' = "check"
    /\ UNCHANGED <<sig, shutdown>>
    /\ LaunchFrame

\* while not shutdown_event.is_set()
L_Check ==
    /\ lpc = "check"
    /\ lpc' = IF sig THEN "join" ELSE "call"
    /\ UNCHANGED <<sig, shutdown, mpc>>
    /\ LaunchFrame

\* signal.pause(): the main thread sleeps until a signal handler has run
L_Pause ==
    /\ lpc = "call"
    /\ lpc' = "pause"
    /\ UNCHANGED <<sig, shutdown, mpc>>
    /\ LaunchFrame

\* a signal arrives: the handler sets the event that main() polls, and
\* signal.pause() returns if the main thread is inside it. Whether the
\* handler also sets the event of the StorageLogger, which __init__ made
\* for itself, is decided outside this repository: either.
Signal ==
    /\ ~sig \/ lpc = "pause"
    /\ lpc \notin {"idle", "returned"}
    /\ sig' = TRUE
    /\ shutdown' \in {shutdown, TRUE}
    /\ lpc' = IF lpc = "pause" THEN "check" ELSE lpc
    /\ UNCHANGED mpc
    /\ LaunchFrame

\* thread.join() returns once the worker has left op.main; return 0
L_Join ==
    /\ lpc = "join"
    /\ mpc \in {"returned", "raised"}
    /\ lpc' = "returned"
    /\ UNCHANGED <<sig, shutdown, mpc>>
    /\ LaunchFrame

\* the quotas given on the command line: none, 0, or a size
CliQuotas == {None, <<0>>, <<Min(QuotaSet)>>}

\* main() has parsed its arguments and constructed the StorageLogger
InitCli ==
    /\ lpc = "start"
    /\ sig = FALSE
    /\ known = {}
    /\ GlobalIdle
    /\ RaceIdle
    /\ SleepIdle
    /\ logger = "StorageLogger"
    /\ impl = "quota_manager"
    /\ quota_arg \in CliQuotas
    /\ quota = InitQuotaValue(quota_arg)
    /\ _files = <<>>
    /\ _file_sizes = <<>>
    /\ disk = {}
    /\ dsize = [p \in Paths |-> 0]
    /\ spc = "idle"
    /\ total_size = 0
    /\ removed = 0
    /\ removed_size = 0
    /\ i = 0
    /\ attempts = 0
    /\ tracked0 = <<>>
    /\ sizes0 = <<>>
    /\ evicted = {}
    /\ failed = {}
    /\ once \in BOOLEAN
    /\ shutdown = FALSE
    /\ mpc = "idle"
    /\ cycles = 0
    /\ sleeps = 0
    /\ sleep_left = 0
    /\ late = 0
    /\ exc = "None"
    /\ store = QM_Reset([k \in Points |-> None], 0)
    /\ WriterIdle

\* the steps of the main thread
LauncherStep ==
    \/ L_Start
    \/ L_Check
    \/ L_Pause
    \/ L_Join

NextCli ==
    \/ L_Start
    \/ L_Check
    \/ L_Pause
    \/ L_Join
    \/ Signal
    \/ MainWhile
    \/ QM_Update
    \/ ManageQuotaBegin
    \/ QM_ManageQuotaReport
    \/ StoragePublish
    \/ SleepTick
    \/ Wake
    \/ \E size \in DirSizes : CreateFile(size)

SpecCli == InitCli /\ [][NextCli]_vars

\* C34: run with --once, after the single cycle has completed and with no
\* signal received, the main thread has returned or is able to take its
\* next step towards joining the worker and returning.
C34_OnceTerminates ==
    (once /\ mpc = "returned" /\ ~sig /\ lpc # "returned") =>
        ENABLED LauncherStep

====
